---- MODULE Spec2Model ----
(***************************************************************************)
(* AI-BLOG-GENERATOR (src/app.py, src/models.py): the Flask routes, the    *)
(* users / user_blogs tables, the per-session and global blog files, and   *)
(* the glue to the generative API (generate_blog, llm_chat).               *)
(*                                                                         *)
(* Strings are sequences of one-character strings, so that strip() and     *)
(* split('|', 1) are computed and not assumed.  None is a sentinel that no *)
(* such sequence equals.                                                   *)
(***************************************************************************)
EXTENDS Integers, Sequences, FiniteSets, TLC

VARIABLES
    config,        \* module-level configuration read at import time
    users,         \* rows of table users
    user_blogs,    \* rows of table user_blogs
    session,       \* per client: the Flask session cookie
    blogs_json,    \* the file blogs.json of the working directory
    blogs_csv,     \* the file blogs.csv of the working directory
    resp,          \* the response to the last request
    call           \* the last direct invocation of generate_blog / llm_chat / api_chat

vars == <<config, users, user_blogs, session, blogs_json, blogs_csv, resp, call>>

(* ------------------------------ bounds -------------------------------- *)
MaxLines == 2      \* lines in one blog_inputs form field
MaxRows  == 4      \* rows of user_blogs the model lets the table grow to
MaxUsers == 3      \* rows of users the model lets the table grow to
MaxId    == 5      \* largest primary key of user_blogs the model lets SQLite give

(* ------------------------------ strings ------------------------------- *)
None == <<"None">>
Empty == <<>>

Truthy(s) == s # None /\ s # Empty

RECURSIVE lstrip(_)
lstrip(s) ==
    IF s = <<>> THEN s
    ELSE IF Head(s) = " " THEN lstrip(Tail(s)) ELSE s

RECURSIVE rstrip(_)
rstrip(s) ==
    IF s = <<>> THEN s
    ELSE IF s[Len(s)] = " " THEN rstrip(SubSeq(s, 1, Len(s) - 1)) ELSE s

strip(s) == rstrip(lstrip(s))

\* str.split('|', 1): the part before the first '|' and, when there is one,
\* the part after it.
FirstBar(s) ==
    IF \E i \in 1..Len(s) : s[i] = "|"
    THEN CHOOSE i \in 1..Len(s) : s[i] = "|" /\ \A j \in 1..(i - 1) : s[j] # "|"
    ELSE 0

split_bar(s) ==
    IF FirstBar(s) = 0 THEN <<s>>
    ELSE <<SubSeq(s, 1, FirstBar(s) - 1), SubSeq(s, FirstBar(s) + 1, Len(s))>>

(* ----------------------- the generative API glue ---------------------- *)
\* What the environment answers to one invocation: the shape of the genai
\* module (which attribute the installed version has), whether its call
\* raises, and what the REST endpoint answers.
ClientShapes == {"no_Client", "ctor_raises", "generate_content", "generate", "neither"}
SdkOutcomes  == {"text", "blank", "no_text", "raise"}
RestOutcomes == {"parts_text", "parts_blank", "parts_no_text", "no_parts", "no_candidates",
                 "error"}

GenEnvs == [client : ClientShapes, sdk : SdkOutcomes, rest : RestOutcomes]

SdkText   == <<"s">>       \* the text of a google-genai response
RestText  == <<"r">>       \* the text of the first part of the first REST candidate
JsonDump  == <<"{", "}">>  \* json.dumps of a REST reply without candidates
StrOfResp == <<"<", ">">>  \* str(response) of a google-genai response without .text
BlankText == <<" ">>       \* a text of white space only ("blank", "parts_blank")

Return(v, reqs) == [kind |-> "return", value |-> v, msg |-> "", requests |-> reqs]
Raise(k, m, reqs) == [kind |-> k, value |-> None, msg |-> m, requests |-> reqs]

\* getattr(resp, 'text', str(resp))
SdkValue(env) ==
    IF env.sdk = "text" THEN SdkText
    ELSE IF env.sdk = "blank" THEN BlankText ELSE StrOfResp

\* generate_blog_rest with a retry: a failed request is sent a second time.
generate_blog_rest_retry(env) ==
    CASE env.rest = "error"         -> Raise("RuntimeError", "Gemini REST", <<"rest", "rest">>)
      [] env.rest = "parts_text"    -> Return(RestText, <<"rest">>)
      [] env.rest = "parts_blank"   -> Return(BlankText, <<"rest">>)
      [] env.rest = "parts_no_text" -> Return(Empty, <<"rest">>)
      [] env.rest = "no_parts"      -> Return(Empty, <<"rest">>)
      [] env.rest = "no_candidates" -> Return(JsonDump, <<"rest">>)

\* The REST request of generate_blog and what is made of its reply.
generate_blog_rest(env) ==
    CASE env.rest = "error"         -> Raise("RuntimeError", "Gemini REST", <<"rest">>)
      [] env.rest = "parts_text"    -> Return(RestText, <<"rest">>)
      [] env.rest = "parts_blank"   -> Return(BlankText, <<"rest">>)
      [] env.rest = "parts_no_text" -> Return(Empty, <<"rest">>)
      [] env.rest = "no_parts"      -> Return(Empty, <<"rest">>)
      [] env.rest = "no_candidates" -> Return(JsonDump, <<"rest">>)

\* generate_blog_sdk that, as llm_chat does, goes on to the REST request when
\* the client raises.
generate_blog_sdk_falls_back(env) ==
    CASE env.client = "ctor_raises" -> generate_blog_rest(env)
      [] env.client = "neither"     -> generate_blog_rest(env)
      [] OTHER ->
            IF env.sdk = "raise"
            THEN [generate_blog_rest(env) EXCEPT !.requests = <<"sdk">> \o @]
            ELSE Return(SdkValue(env), <<"sdk">>)

\* The google-genai path of generate_blog: every exception of the try block
\* is re-raised as RuntimeError by the except clause that closes it.
generate_blog_sdk(env) ==
    CASE env.client = "ctor_raises" -> Raise("RuntimeError", "google-genai", <<>>)
      [] env.client = "neither"     -> Raise("RuntimeError", "google-genai", <<>>)
      [] OTHER ->
            IF env.sdk = "raise"
            THEN Raise("RuntimeError", "google-genai", <<"sdk">>)
            ELSE Return(SdkValue(env), <<"sdk">>)

\* generate_blog with the two checks in the other order.
generate_blog_key_first(title, details, cfg, env) ==
    IF ~Truthy(cfg.GEMINI_API_KEY)
    THEN Raise("ValueError", "GEMINI_API_KEY is not configured", <<>>)
    ELSE IF ~Truthy(title) \/ strip(title) = Empty
    THEN Raise("ValueError", "Title cannot be empty", <<>>)
    ELSE IF cfg.HAS_GOOGLE_GENAI
    THEN generate_blog_sdk(env)
    ELSE generate_blog_rest(env)

generate_blog(title, details, cfg, env) ==
    IF ~Truthy(title) \/ strip(title) = Empty
    THEN Raise("ValueError", "Title cannot be empty", <<>>)
    ELSE IF ~Truthy(cfg.GEMINI_API_KEY)
    THEN Raise("ValueError", "GEMINI_API_KEY is not configured", <<>>)
    ELSE IF cfg.HAS_GOOGLE_GENAI
    THEN generate_blog_sdk(env)
    ELSE generate_blog_rest(env)

\* The REST request of llm_chat.
llm_chat_rest(env, before) ==
    CASE env.rest = "error"      -> Raise("RuntimeError", "Gemini REST chat error",
                                          before \o <<"rest">>)
      [] env.rest = "parts_text"  -> Return(RestText, before \o <<"rest">>)
      [] env.rest = "parts_blank" -> Return(BlankText, before \o <<"rest">>)
      [] OTHER                    -> Return(Empty, before \o <<"rest">>)

\* The requests the google-genai block of llm_chat makes.
llm_chat_sdk_requests(env) ==
    IF env.client = "generate_content" THEN <<"sdk">> ELSE <<>>

\* llm_chat that, as generate_blog does, ends in RuntimeError when the
\* google-genai block gives no text.
llm_chat_no_fallthrough(message, api_key, cfg, env) ==
    LET k0  == IF Truthy(api_key) THEN api_key
               ELSE IF Truthy(cfg.CHAT_ASSISTANT_API_KEY) THEN cfg.CHAT_ASSISTANT_API_KEY
               ELSE cfg.GEMINI_API_KEY
        key == IF Truthy(k0) THEN strip(k0) ELSE k0
    IN  IF ~Truthy(key)
        THEN Raise("ValueError", "GEMINI_API_KEY is not configured for chat responses", <<>>)
        ELSE IF ~cfg.HAS_GOOGLE_GENAI
        THEN llm_chat_rest(env, <<>>)
        ELSE IF env.client = "generate_content" /\ env.sdk \in {"text", "blank"}
        THEN Return(SdkValue(env), <<"sdk">>)
        ELSE Raise("RuntimeError", "google-genai", llm_chat_sdk_requests(env))

llm_chat(message, api_key, cfg, env) ==
    LET k0  == IF Truthy(api_key) THEN api_key
               ELSE IF Truthy(cfg.CHAT_ASSISTANT_API_KEY) THEN cfg.CHAT_ASSISTANT_API_KEY
               ELSE cfg.GEMINI_API_KEY
        key == IF Truthy(k0) THEN strip(k0) ELSE k0
    IN  IF ~Truthy(key)
        THEN Raise("ValueError", "GEMINI_API_KEY is not configured for chat responses", <<>>)
        ELSE IF /\ cfg.HAS_GOOGLE_GENAI
                /\ env.client = "generate_content"
                /\ env.sdk \in {"text", "blank"}
        THEN Return(SdkValue(env), <<"sdk">>)
        ELSE IF cfg.HAS_GOOGLE_GENAI
        THEN llm_chat_rest(env, llm_chat_sdk_requests(env))
        ELSE llm_chat_rest(env, <<>>)

(* ------------------------------ the data ------------------------------ *)
\* A file, or a key of the session, holding a JSON list of blogs: absent, or
\* present with the list.
NoFile == [exists |-> FALSE, blogs |-> <<>>]
File(blogs) == [exists |-> TRUE, blogs |-> blogs]

Clients == {"c1", "c2"}

\* generate_password_hash / check_password_hash: the hash is not the password,
\* and the check succeeds exactly on the password that was hashed.
generate_password_hash(p) == <<"$">> \o p
check_password_hash(h, p) == h = generate_password_hash(p)

\* current_user of a request: load_user(session['_user_id']), 0 for the
\* anonymous user.
current_user(c) ==
    IF \E u \in users : u.id = session[c].user_id THEN session[c].user_id ELSE 0

is_authenticated(c) == current_user(c) # 0

\* markdown.markdown(body)
markdown(body) == IF strip(body) = Empty THEN Empty ELSE <<"<p>">> \o body \o <<"</p>">>

\* The dict index() builds for one generated blog.  id is 0 for a blog that
\* is no database row.  gen records who generated the text (user id, 0 for
\* an anonymous client, and the client): the program does not store it, the
\* isolation properties are stated with it.
BlogDict(title, details, body, uid, c) ==
    [id |-> 0, title |-> title, details |-> details, body |-> body,
     body_html |-> markdown(body), gen |-> [user |-> uid, client |-> c]]

\* UserBlog.to_dict
to_dict(row) ==
    [id |-> row.id, title |-> row.title, details |-> row.details, body |-> row.body,
     body_html |-> row.body_html, gen |-> row.gen]

\* The primary key SQLite gives the next row of a table.
NewId(rows) ==
    IF rows = {} THEN 1
    ELSE (CHOOSE m \in {r.id : r \in rows} : \A r \in rows : r.id <= m) + 1

\* db.session.add(UserBlog(user_id=..., title=..., ...)) for every blog of the list
RECURSIVE AddBlogs(_, _, _)
AddBlogs(rows, uid, blogs) ==
    IF blogs = <<>> THEN rows
    ELSE AddBlogs(rows \cup {[id |-> NewId(rows), user_id |-> uid,
                              title |-> Head(blogs).title,
                              details |-> Head(blogs).details,
                              body |-> Head(blogs).body,
                              body_html |-> Head(blogs).body_html,
                              gen |-> Head(blogs).gen]},
                  uid, Tail(blogs))

\* The loop "for i, b in enumerate(blogs)" of index(): the block that persists
\* the blogs is indented into its body, so it runs once per element.
RECURSIVE PersistLoop(_, _, _, _)
PersistLoop(rows, uid, blogs, n) ==
    IF n = 0 THEN rows
    ELSE PersistLoop(AddBlogs(rows, uid, blogs), uid, blogs, n - 1)

\* Rows of a user, in primary-key order (the order of an unordered SELECT).
RECURSIVE RowsInOrder(_)
RowsInOrder(rows) ==
    IF rows = {} THEN <<>>
    ELSE LET r == CHOOSE x \in rows : \A y \in rows : x.id <= y.id
         IN  <<r>> \o RowsInOrder(rows \ {r})

RowsOf(uid) == {r \in user_blogs : r.user_id = uid}

(* ----------------------------- responses ------------------------------ *)
\* A response: what the client gets.  flashes are the messages flashed while
\* the request was handled; blogs are the blog dicts whose content the body
\* carries; raised are the exceptions raised while it was handled, each with
\* the place that raised it.
Response(c, route, args, status, kind, location, flashes, blogs, ctype, raised) ==
    [client |-> c, user |-> current_user(c), route |-> route, args |-> args,
     status |-> status, kind |-> kind, location |-> location, flashes |-> flashes,
     blogs |-> blogs, ctype |-> ctype, raised |-> raised, content |-> <<>>]

NoArgs == <<>>
NoResponse ==
    [client |-> "none", user |-> 0, route |-> "none", args |-> NoArgs, status |-> 0,
     kind |-> "none", location |-> "", flashes |-> {}, blogs |-> <<>>, ctype |-> "",
     raised |-> {}, content |-> <<>>]

Redirect(c, route, args, location, flashes, raised) ==
    Response(c, route, args, 302, "redirect", location, flashes, <<>>, "", raised)

Render(c, route, args, template, flashes, blogs, raised) ==
    Response(c, route, args, 200, "render", template, flashes, blogs, "text/html", raised)

Json(c, route, args, status, blogs) ==
    Response(c, route, args, status, "json", "", {}, blogs, "application/json", {})

NoCall == [fn |-> "none"]

(* ------------------------------- inputs ------------------------------- *)
SeqsUpTo(S, n) == UNION {[1..k -> S] : k \in 0..n}

\* Lines of the blog_inputs form field: blank, details without a title, a
\* title with a blank before it and details.
InputLines == {<<" ">>, <<"|", "a">>, <<" ", "b", "|", "c">>}

SaveFormats == {"inline", "csv", "json"}

\* What the API answers to the calls index() makes.
IndexEnvs ==
    {[client |-> "generate_content", sdk |-> "text", rest |-> "parts_text"],
     [client |-> "generate_content", sdk |-> "raise", rest |-> "error"]}

(* ------------------------------ index() ------------------------------- *)
\* The loop over inputs.splitlines(): the blogs generated, the messages
\* flashed and the exceptions caught, from line i on.
RECURSIVE GenerateAll(_, _, _, _, _, _)
GenerateAll(lines, envs, i, cfg, uid, c) ==
    IF i > Len(lines) THEN [blogs |-> <<>>, flashes |-> {}, raised |-> {}]
    ELSE LET rest == GenerateAll(lines, envs, i + 1, cfg, uid, c)
             comp == split_bar(lines[i])
             title == strip(comp[1])
             details == IF Len(comp) > 1 THEN strip(comp[2]) ELSE Empty
             r == generate_blog(title, details, cfg, envs[i])
         IN  IF strip(lines[i]) = Empty THEN rest
             ELSE IF r.kind = "return"
             THEN [rest EXCEPT !.blogs = <<BlogDict(title, details, r.value, uid, c)>> \o @]
             ELSE [rest EXCEPT !.flashes = @ \cup {<<"error", "Error generating blog">>},
                               !.raised = @ \cup {<<"generate_blog", r.kind>>}]

\* request.form.get("blog_inputs", "").strip() is empty
BlankInput(lines) == \A i \in 1..Len(lines) : strip(lines[i]) = Empty

\* How many times index() runs the block that persists the generated blogs.
PersistRuns(blogs) == Len(blogs)

\* POST / : the new database rows, session and files, and the response.
IndexPost(c, lines, envs, save_format, io_ok) ==
    LET uid == current_user(c)
        g == GenerateAll(lines, envs, 1, config, uid, c)
        same == [rows |-> user_blogs, sess |-> session[c],
                 json |-> blogs_json, csv |-> blogs_csv, resp |-> NoResponse]
        args == [method |-> "POST", save_format |-> save_format, n |-> Len(g.blogs)]
    IN  IF BlankInput(lines)
        THEN [same EXCEPT !.resp = Redirect(c, "index", args, "index",
                 {<<"error", "Please enter at least one blog title">>}, {})]
        ELSE IF g.blogs = <<>>
        THEN [same EXCEPT !.resp = Redirect(c, "index", args, "index",
                 g.flashes \cup {<<"error", "No blogs were generated successfully">>},
                 g.raised)]
        ELSE IF save_format \in {"csv", "json"} /\ ~io_ok
        THEN \* open() raises IOError: flashed, and the blogs are rendered
             [same EXCEPT !.resp = Render(c, "index", args, "blog_list.html",
                 g.flashes \cup {<<"error", "Error saving blogs">>}, g.blogs,
                 g.raised \cup {<<"save", "IOError">>})]
        ELSE IF save_format = "csv"
        THEN \* the header is written; writerows raises ValueError on the first
             \* dict, which has the keys body_html and filename_base
             [same EXCEPT !.csv = File(<<>>),
                          !.resp = Redirect(c, "index", args, "index",
                 g.flashes \cup {<<"error", "An unexpected error occurred">>},
                 g.raised \cup {<<"save", "ValueError">>})]
        ELSE IF save_format = "json"
        THEN [same EXCEPT !.json = File(g.blogs),
                          !.resp = Redirect(c, "index", args, "show_blog/json",
                 g.flashes \cup {<<"success", "Blogs saved successfully as JSON">>},
                 g.raised)]
        ELSE [same EXCEPT
                 !.sess = IF config.data_writable
                          THEN [@ EXCEPT !.last_blogs_file = File(g.blogs)]
                          ELSE [@ EXCEPT !.last_blogs = File(g.blogs)],
                 !.rows = IF uid # 0
                          THEN PersistLoop(@, uid, g.blogs, PersistRuns(g.blogs))
                          ELSE @,
                 !.resp = Render(c, "index", args, "blog_list.html", g.flashes, g.blogs,
                                 g.raised \cup (IF config.data_writable THEN {}
                                                 ELSE {<<"session_file", "IOError">>}))]

index_post(c, lines, envs, save_format, io_ok) ==
    \E out \in {IndexPost(c, lines, envs, save_format, io_ok)} :
        /\ Cardinality(out.rows) <= MaxRows
        /\ \A r \in out.rows : r.id <= MaxId
        /\ user_blogs' = out.rows
        /\ session' = [session EXCEPT ![c] = out.sess]
        /\ blogs_json' = out.json
        /\ blogs_csv' = out.csv
        /\ resp' = out.resp
        /\ UNCHANGED <<config, users, call>>

index_get(c) ==
    /\ resp' = Render(c, "index", [method |-> "GET"], "index.html", {}, <<>>, {})
    /\ UNCHANGED <<config, users, user_blogs, session, blogs_json, blogs_csv, call>>

(* ----------------------- register, login, logout ---------------------- *)
FirstNames == {<<"n">>}
Usernames  == {<<>>, <<"u">>, <<" ", "u">>, <<"v">>}
Emails     == {<<"e">>, <<"e", " ">>, <<"f">>}
Passwords  == {<<"p">>}
LoginPasswords == {<<>>, <<"p">>, <<"q">>}

\* The unique=True columns of User: the INSERT is refused when a row has the
\* username or the email.
UniqueOk(rows, username, email) ==
    \A u \in rows : u.username # username /\ u.email # email

\* Register without the email check, on a column that is not unique.
Register_username_only(rows, first_name, username, email, password, terms) ==
    IF first_name = Empty \/ username = Empty \/ email = Empty \/ password = Empty
    THEN [rows |-> rows, flash |-> <<"error", "All fields are required">>,
          location |-> "register"]
    ELSE IF ~terms
    THEN [rows |-> rows, flash |-> <<"error", "You must agree to the terms and conditions">>,
          location |-> "register"]
    ELSE IF \E u \in rows : u.username = username
    THEN [rows |-> rows, flash |-> <<"error", "Username already exists">>,
          location |-> "register"]
    ELSE [rows |-> rows \cup {[id |-> NewId(rows), username |-> username, email |-> email,
                               password_hash |-> generate_password_hash(password)]},
          flash |-> <<"success", "Account created successfully! Please log in.">>,
          location |-> "login"]

\* POST /register after the fields are stripped: the new table and the message.
Register(rows, first_name, username, email, password, terms) ==
    IF first_name = Empty \/ username = Empty \/ email = Empty \/ password = Empty
    THEN [rows |-> rows, flash |-> <<"error", "All fields are required">>,
          location |-> "register"]
    ELSE IF ~terms
    THEN [rows |-> rows, flash |-> <<"error", "You must agree to the terms and conditions">>,
          location |-> "register"]
    ELSE IF \E u \in rows : u.username = username
    THEN [rows |-> rows, flash |-> <<"error", "Username already exists">>,
          location |-> "register"]
    ELSE IF \E u \in rows : u.email = email
    THEN [rows |-> rows, flash |-> <<"error", "Email already registered">>,
          location |-> "register"]
    ELSE IF ~UniqueOk(rows, username, email)
    THEN [rows |-> rows, flash |-> <<"error", "An error occurred during registration">>,
          location |-> "register"]
    ELSE [rows |-> rows \cup {[id |-> NewId(rows), username |-> username, email |-> email,
                               password_hash |-> generate_password_hash(password)]},
          flash |-> <<"success", "Account created successfully! Please log in.">>,
          location |-> "login"]

register(c, first_name, username, email, password, terms) ==
    LET out == Register(users, strip(first_name), strip(username), strip(email),
                        strip(password), terms)
    IN  /\ Cardinality(out.rows) <= MaxUsers
        /\ users' = out.rows
        /\ resp' = Redirect(c, "register",
                            [method |-> "POST", username |-> strip(username),
                             email |-> strip(email)],
                            out.location, {out.flash}, {})
        /\ UNCHANGED <<config, user_blogs, session, blogs_json, blogs_csv, call>>

login(c, email, password) ==
    LET e == strip(email)
        p == strip(password)
        found == {u \in users : u.email = e}
        args == [method |-> "POST", email |-> e]
    IN  IF e = Empty \/ p = Empty
        THEN /\ resp' = Redirect(c, "login", args, "login",
                                 {<<"error", "Email and password are required">>}, {})
             /\ UNCHANGED <<config, users, user_blogs, session, blogs_json, blogs_csv, call>>
        ELSE IF \E u \in found : check_password_hash(u.password_hash, p)
        THEN /\ session' = [session EXCEPT ![c].user_id =
                                (CHOOSE u \in found : check_password_hash(u.password_hash, p)).id]
             /\ resp' = [Redirect(c, "login", args, "index",
                                  {<<"success", "Welcome back">>}, {})
                         EXCEPT !.user = session'[c].user_id]
             /\ UNCHANGED <<config, users, user_blogs, blogs_json, blogs_csv, call>>
        ELSE /\ resp' = Render(c, "login", args, "login.html",
                               {<<"error", "Invalid email or password">>}, <<>>, {})
             /\ UNCHANGED <<config, users, user_blogs, session, blogs_json, blogs_csv, call>>

\* @login_required: an anonymous client is sent to the login view.  logout_user
\* removes the user id from the session and nothing else.
logout(c) ==
    IF ~is_authenticated(c)
    THEN /\ resp' = Redirect(c, "logout", NoArgs, "login", {}, {})
         /\ UNCHANGED <<config, users, user_blogs, session, blogs_json, blogs_csv, call>>
    ELSE /\ session' = [session EXCEPT ![c].user_id = 0]
         /\ resp' = Redirect(c, "logout", NoArgs, "index",
                             {<<"success", "You have been logged out">>}, {})
         /\ UNCHANGED <<config, users, user_blogs, blogs_json, blogs_csv, call>>

(* ------------------- delete_blog, clear_all_blogs --------------------- *)
BlogIds == 0..MaxId

\* UserBlog.query.filter_by(id=blog_id, user_id=current_user.id).first()
\* The filter on the id alone.
OwnedRow_any_user(rows, blog_id, uid) == {r \in rows : r.id = blog_id}

OwnedRow(rows, blog_id, uid) == {r \in rows : r.id = blog_id /\ r.user_id = uid}

\* DeleteBlog that looks the row up by id alone.
DeleteBlog_any_owner(rows, blog_id, uid) ==
    IF uid = 0 THEN [rows |-> rows, status |-> 401]
    ELSE IF {r \in rows : r.id = blog_id} = {} THEN [rows |-> rows, status |-> 404]
    ELSE [rows |-> {r \in rows : r.id # blog_id}, status |-> 200]

\* DELETE /api/delete-blog/<blog_id>: the new table and the status.
DeleteBlog(rows, blog_id, uid) ==
    IF uid = 0 THEN [rows |-> rows, status |-> 401]
    ELSE IF OwnedRow(rows, blog_id, uid) = {} THEN [rows |-> rows, status |-> 404]
    ELSE [rows |-> rows \ OwnedRow(rows, blog_id, uid), status |-> 200]

delete_blog(c, blog_id) ==
    LET out == DeleteBlog(user_blogs, blog_id, current_user(c))
    IN  /\ user_blogs' = out.rows
        /\ resp' = Json(c, "delete_blog", [blog_id |-> blog_id], out.status, <<>>)
        /\ UNCHANGED <<config, users, session, blogs_json, blogs_csv, call>>

\* ClearAllBlogs without the filter on the owner.
ClearAllBlogs_everyone(rows, uid) ==
    IF uid = 0 THEN [rows |-> rows, status |-> 401]
    ELSE [rows |-> {}, status |-> 200]

\* DELETE /api/clear-all-blogs: the new table and the status.
ClearAllBlogs(rows, uid) ==
    IF uid = 0 THEN [rows |-> rows, status |-> 401]
    ELSE [rows |-> {r \in rows : r.user_id # uid}, status |-> 200]

clear_all_blogs(c) ==
    LET out == ClearAllBlogs(user_blogs, current_user(c))
    IN  /\ user_blogs' = out.rows
        /\ resp' = Json(c, "clear_all_blogs", NoArgs, out.status, <<>>)
        /\ UNCHANGED <<config, users, session, blogs_json, blogs_csv, call>>

(* ------------------ show_blog, my_blogs, view_blog --------------------- *)
ListFormats == {"csv", "json", "xml"}

HowToUseDocker == <<"d", "o", "c", "k", "e", "r">>
sample_titles == {HowToUseDocker}

\* ShowBlog that swallows a read error and renders the empty list.
ShowBlog_swallows(c, format, read_ok) ==
    LET args == [format |-> format]
        file == IF format = "csv" THEN blogs_csv
                ELSE IF format = "json" THEN blogs_json ELSE File(<<>>)
    IN  IF format \in {"csv", "json"} /\ ~file.exists
        THEN Redirect(c, "show_blog", args, "index",
                      {<<"error", "No file found">>}, {<<"read", "FileNotFoundError">>})
        ELSE IF format \in {"csv", "json"} /\ ~read_ok
        THEN Render(c, "show_blog", args, "blog_list.html", {}, <<>>,
                    {<<"read", "Exception">>})
        ELSE Render(c, "show_blog", args, "blog_list.html", {}, file.blogs, {})

\* GET /blog/<format>: the listing read from blogs.csv or blogs.json.
ShowBlog(c, format, read_ok) ==
    LET args == [format |-> format]
        file == IF format = "csv" THEN blogs_csv
                ELSE IF format = "json" THEN blogs_json ELSE File(<<>>)
        blogs == IF \A i \in 1..Len(file.blogs) :
                        strip(file.blogs[i].title) \in sample_titles
                 THEN <<>> ELSE file.blogs
    IN  IF format \in {"csv", "json"} /\ ~file.exists
        THEN Redirect(c, "show_blog", args, "index",
                      {<<"error", "No file found">>}, {<<"read", "FileNotFoundError">>})
        ELSE IF format \in {"csv", "json"} /\ ~read_ok
        THEN Redirect(c, "show_blog", args, "index",
                      {<<"error", "Error reading file">>}, {<<"read", "Exception">>})
        ELSE Render(c, "show_blog", args, "blog_list.html", {}, blogs, {})

show_blog(c, format, read_ok) ==
    /\ resp' = ShowBlog(c, format, read_ok)
    /\ UNCHANGED <<config, users, user_blogs, session, blogs_json, blogs_csv, call>>

\* The entries of the history page: id and title, no text.
HistoryEntry(row) ==
    [id |-> row.id, title |-> row.title, details |-> Empty, body |-> Empty,
     body_html |-> Empty, gen |-> row.gen]

RECURSIVE Reverse(_)
Reverse(s) == IF s = <<>> THEN <<>> ELSE Reverse(Tail(s)) \o <<Head(s)>>

HistoryEntries(s) == [i \in 1..Len(s) |-> HistoryEntry(s[i])]

\* GET /blog
MyBlogs(c) ==
    IF ~is_authenticated(c)
    THEN Redirect(c, "my_blogs", NoArgs, "login",
                  {<<"error", "Please log in to view your blog history">>}, {})
    ELSE Render(c, "my_blogs", NoArgs, "blog_history.html", {},
                HistoryEntries(Reverse(RowsInOrder(RowsOf(current_user(c))))), {})

my_blogs(c) ==
    /\ resp' = MyBlogs(c)
    /\ UNCHANGED <<config, users, user_blogs, session, blogs_json, blogs_csv, call>>

\* GET /blog/<int:blog_id>
ViewBlog(c, blog_id) ==
    LET args == [blog_id |-> blog_id]
        found == OwnedRow(user_blogs, blog_id, current_user(c))
    IN  IF ~is_authenticated(c)
        THEN Redirect(c, "view_blog", args, "login",
                      {<<"error", "Please log in to view your blogs">>}, {})
        ELSE IF found = {}
        THEN Redirect(c, "view_blog", args, "my_blogs", {<<"error", "Blog not found">>}, {})
        ELSE Render(c, "view_blog", args, "blog_list.html", {},
                    <<to_dict(CHOOSE r \in found : TRUE)>>, {})

view_blog(c, blog_id) ==
    /\ resp' = ViewBlog(c, blog_id)
    /\ UNCHANGED <<config, users, user_blogs, session, blogs_json, blogs_csv, call>>

(* --------------------------- handle_error ----------------------------- *)
\* Exceptions that reach the application's error handler: an HTTPException
\* (a URL no route matches), an exception with a message, one without.
Errors ==
    {[http |-> TRUE, description |-> "Not Found", str |-> "404 Not Found"],
     [http |-> FALSE, description |-> "", str |-> "boom"],
     [http |-> FALSE, description |-> "", str |-> ""]}

HandleError(c, e) ==
    LET error_msg == IF e.http THEN e.description
                     ELSE IF e.str # "" THEN e.str
                     ELSE "An unexpected error occurred"
    IN  Redirect(c, "handle_error", [http |-> e.http], "index", {<<"error", error_msg>>},
                 {<<"handler", IF e.http THEN "HTTPException" ELSE "Exception">>})

handle_error(c, e) ==
    /\ resp' = HandleError(c, e)
    /\ UNCHANGED <<config, users, user_blogs, session, blogs_json, blogs_csv, call>>

(* ----------------------------- downloads ------------------------------ *)
Formats == {"html", "pdf", "docx", "md", "markdown", "txt", "json", "csv", "xml"}

\* _strip_text_prefix: a first paragraph that reads like an instruction ("W")
\* is dropped when another paragraph follows it ("#" is the blank line).
_strip_text_prefix(text) ==
    IF Len(text) > 2 /\ text[1] = "W" /\ text[2] = "#"
    THEN lstrip(SubSeq(text, 3, Len(text))) ELSE text

_sanitize_blog_content(blog) ==
    [blog EXCEPT !.body = _strip_text_prefix(@), !.body_html = _strip_text_prefix(@)]

\* The blogs of the session: the server-side file the session names, else the
\* list kept in the session itself, else none.
SessionBlogs(c) ==
    IF session[c].last_blogs_file.exists THEN session[c].last_blogs_file.blogs
    ELSE session[c].last_blogs.blogs

\* The blog download_blog finds for idx: the caller's database row with that
\* id, else element idx of the session's list; <<>> when there is none.
FindBlog(c, idx) ==
    LET found == OwnedRow(user_blogs, idx, current_user(c))
    IN  IF is_authenticated(c) /\ found # {}
        THEN <<to_dict(CHOOSE r \in found : TRUE)>>
        ELSE IF idx + 1 \in 1..Len(SessionBlogs(c))
        THEN <<SessionBlogs(c)[idx + 1]>>
        ELSE <<>>

\* Mimetype without the alias "markdown" of "md".
Mimetype_md_only(fmt) ==
    CASE fmt = "html" -> "text/html; charset=utf-8"
      [] fmt = "pdf"  -> "application/pdf"
      [] fmt = "docx" ->
            "application/vnd.openxmlformats-officedocument.wordprocessingml.document"
      [] fmt = "md"   -> "text/markdown; charset=utf-8"
      [] fmt = "txt"  -> "text/plain; charset=utf-8"
      [] fmt = "json" -> "application/json; charset=utf-8"
      [] fmt = "csv"  -> "text/csv; charset=utf-8"
      [] OTHER        -> ""

\* The Content-Type download_blog sets for a format; "" for a format it does
\* not support.
Mimetype(fmt) ==
    CASE fmt = "html" -> "text/html; charset=utf-8"
      [] fmt = "pdf"  -> "application/pdf"
      [] fmt = "docx" ->
            "application/vnd.openxmlformats-officedocument.wordprocessingml.document"
      [] fmt \in {"md", "markdown"} -> "text/markdown; charset=utf-8"
      [] fmt = "txt"  -> "text/plain; charset=utf-8"
      [] fmt = "json" -> "application/json; charset=utf-8"
      [] fmt = "csv"  -> "text/csv; charset=utf-8"
      [] OTHER        -> ""

\* The body download_blog builds for a format.
Content(fmt, blog) ==
    CASE fmt = "html" -> <<"<body>">> \o blog.body_html \o <<"</body>">>
      [] fmt = "pdf"  -> <<"%PDF">> \o (IF blog.body_html # Empty THEN blog.body_html
                                        ELSE markdown(blog.body))
      [] fmt = "docx" -> <<"PK">> \o markdown(blog.body)
      [] fmt \in {"md", "markdown", "txt"} -> blog.body
      [] fmt = "json" -> <<"{">> \o blog.title \o <<",">> \o blog.details \o <<",">>
                         \o blog.body \o <<",">> \o blog.body_html \o <<"}">>
      [] fmt = "csv"  -> <<"title,details,body,date">> \o blog.title \o <<",">>
                         \o blog.details \o <<",">> \o blog.body
      [] OTHER        -> <<>>

Attachment(c, route, args, ctype, blogs, content) ==
    [Response(c, route, args, 200, "attachment", "", {}, blogs, ctype, {})
     EXCEPT !.content = content]

\* GET /download/<fmt>/<idx>
DownloadBlog(c, fmt, idx) ==
    LET args == [fmt |-> fmt, idx |-> idx]
        found == FindBlog(c, idx)
        blog == _sanitize_blog_content(found[1])
    IN  IF found = <<>>
        THEN Redirect(c, "download_blog", args, "index",
                      {<<"error", "Requested blog not found">>}, {})
        ELSE IF Mimetype(fmt) = ""
        THEN Redirect(c, "download_blog", args, "index",
                      {<<"error", "Unsupported download format">>}, {})
        ELSE Attachment(c, "download_blog", args, Mimetype(fmt), <<blog>>,
                        Content(fmt, blog))

download_blog(c, fmt, idx) ==
    /\ resp' = DownloadBlog(c, fmt, idx)
    /\ UNCHANGED <<config, users, user_blogs, session, blogs_json, blogs_csv, call>>

RECURSIVE Concat(_, _)
Concat(fmt, blogs) ==
    IF blogs = <<>> THEN <<>>
    ELSE (CASE fmt = "json" -> Content("json", Head(blogs))
            [] fmt = "csv"  -> Head(blogs).title \o <<",">> \o Head(blogs).details
                               \o <<",">> \o Head(blogs).body
            [] fmt = "html" -> <<"<h1>">> \o Head(blogs).title \o <<"</h1>">>
                               \o Head(blogs).body_html \o <<"<hr/>">>
            [] OTHER        -> Head(blogs).title \o Head(blogs).body \o <<"---">>)
         \o Concat(fmt, Tail(blogs))

\* GET /download/all/<fmt>
DownloadAll(c, fmt) ==
    Attachment(c, "download_all", [fmt |-> fmt],
               CASE fmt = "json" -> "application/json; charset=utf-8"
                 [] fmt = "csv"  -> "text/csv; charset=utf-8"
                 [] fmt \in {"txt", "md"} -> "text/plain; charset=utf-8"
                 [] OTHER -> "text/html; charset=utf-8",
               SessionBlogs(c), Concat(fmt, SessionBlogs(c)))

download_all(c, fmt) ==
    /\ resp' = DownloadAll(c, fmt)
    /\ UNCHANGED <<config, users, user_blogs, session, blogs_json, blogs_csv, call>>

(* ------------------------- save_blog_content -------------------------- *)
SaveIdx == 0..1
EditedHtml == <<"h">>

\* JSON bodies of POST /api/save-blog-content: without the keys, or with idx
\* and body_html.
SaveBodies ==
    {[has_keys |-> FALSE, idx |-> 0, body_html |-> Empty]}
    \cup [has_keys : {TRUE}, idx : SaveIdx, body_html : {EditedHtml}]

\* blogs[blog_idx]['body_html'] = updated_body_html, and the same for 'body',
\* when 0 <= blog_idx < len(blogs)
UpdateAt(blogs, idx, html) ==
    IF idx + 1 \in 1..Len(blogs)
    THEN [blogs EXCEPT ![idx + 1] = [@ EXCEPT !.body_html = html, !.body = html]]
    ELSE blogs

\* The session key 'last_blogs' after the update: written only when the
\* list read from it has an element at idx.
SaveInSession(sess, idx, html) ==
    IF idx + 1 \in 1..Len(sess.last_blogs.blogs)
    THEN [sess EXCEPT !.last_blogs = File(UpdateAt(sess.last_blogs.blogs, idx, html))]
    ELSE sess

\* The table after the update of current_user.blogs.all()[blog_idx].
SaveInDatabase(rows, uid, idx, html) ==
    LET mine == RowsInOrder({r \in rows : r.user_id = uid})
    IN  IF uid # 0 /\ idx + 1 \in 1..Len(mine)
        THEN (rows \ {mine[idx + 1]})
             \cup {[mine[idx + 1] EXCEPT !.body_html = html, !.body = html]}
        ELSE rows

\* POST /api/save-blog-content
SaveBlogContent(c, data) ==
    LET args == [has_keys |-> data.has_keys, idx |-> data.idx, body_html |-> data.body_html]
    IN  IF ~data.has_keys
        THEN [sess |-> session[c], rows |-> user_blogs,
              resp |-> [Json(c, "save_blog_content", args, 400, <<>>)
                        EXCEPT !.content = [error |-> "Missing idx or body_html"]]]
        ELSE [sess |-> SaveInSession(session[c], data.idx, data.body_html),
              rows |-> SaveInDatabase(user_blogs, current_user(c), data.idx, data.body_html),
              resp |-> [Json(c, "save_blog_content", args, 200, <<>>)
                        EXCEPT !.content = [success |-> TRUE]]]

save_blog_content(c, data) ==
    \E out \in {SaveBlogContent(c, data)} :
        /\ session' = [session EXCEPT ![c] = out.sess]
        /\ user_blogs' = out.rows
        /\ resp' = out.resp
        /\ UNCHANGED <<config, users, blogs_json, blogs_csv, call>>

(* --------------------------- get_user_stats --------------------------- *)
\* Counting the rows of every user instead of the caller's.
GetUserStats_all_rows(c) ==
    [Json(c, "get_user_stats", NoArgs, 200, <<>>)
     EXCEPT !.content = [total_blogs |-> IF is_authenticated(c)
                                         THEN Cardinality(user_blogs) ELSE 0,
                         total_downloads |-> 0]]

\* GET /api/user-stats
GetUserStats(c) ==
    [Json(c, "get_user_stats", NoArgs, 200, <<>>)
     EXCEPT !.content = [total_blogs |-> IF is_authenticated(c)
                                         THEN Cardinality(RowsOf(current_user(c))) ELSE 0,
                         total_downloads |-> 0]]

get_user_stats(c) ==
    /\ resp' = GetUserStats(c)
    /\ UNCHANGED <<config, users, user_blogs, session, blogs_json, blogs_csv, call>>

(* ------------------------------ api_chat ------------------------------ *)
\* What request.get_json() gives: it raises (a body that is no JSON), None
\* (the JSON null), or an object with or without the key 'message'.
ChatBodies ==
    {[json |-> "raises", has_message |-> FALSE, message |-> Empty],
     [json |-> "null", has_message |-> FALSE, message |-> Empty],
     [json |-> "object", has_message |-> FALSE, message |-> Empty]}
    \cup [json : {"object"}, has_message : {TRUE}, message : {Empty, <<" ">>, <<" ", "m">>}]

UnableToGenerate == <<"Unable to generate a response">>

\* response_text.strip() if response_text else "Unable to generate a response"
Reply(response_text) ==
    IF Truthy(response_text) THEN strip(response_text) ELSE UnableToGenerate

JsonStatus(c, route, args, status, body) ==
    [Json(c, route, args, status, <<>>) EXCEPT !.content = body]

\* POST /api/chat
ApiChat(c, data, env) ==
    LET args == [data |-> data, env |-> env]
        user_message == strip(data.message)
        k == IF Truthy(config.CHAT_ASSISTANT_API_KEY) THEN config.CHAT_ASSISTANT_API_KEY
             ELSE config.GEMINI_API_KEY
        api_key == IF Truthy(k) THEN strip(k) ELSE k
        r == llm_chat(user_message, api_key, config, env)
    IN  IF data.json = "raises"
        THEN JsonStatus(c, "api_chat", args, 500, [error |-> "get_json"])
        ELSE IF data.json = "null" \/ ~data.has_message
        THEN JsonStatus(c, "api_chat", args, 400, [error |-> "No message provided"])
        ELSE IF user_message = Empty
        THEN JsonStatus(c, "api_chat", args, 400, [error |-> "Message cannot be empty"])
        ELSE IF r.kind # "return"
        THEN JsonStatus(c, "api_chat", args, 500, [error |-> "LLM chat error"])
        ELSE JsonStatus(c, "api_chat", args, 200, [response |-> Reply(r.value)])

api_chat(c, data, env) ==
    /\ resp' = ApiChat(c, data, env)
    /\ UNCHANGED <<config, users, user_blogs, session, blogs_json, blogs_csv, call>>

(* --------------------------- the application -------------------------- *)
Key == <<"k">>
Keys == {None, Empty, Key}

\* Two accounts registered earlier, with the password <<"p">>.
RegisteredUsers ==
    {[id |-> 1, username |-> <<"u">>, email |-> <<"e">>,
      password_hash |-> generate_password_hash(<<"p">>)],
     [id |-> 2, username |-> <<"v">>, email |-> <<"f">>,
      password_hash |-> generate_password_hash(<<"p">>)]}

NewSession == [user_id |-> 0, last_blogs_file |-> NoFile, last_blogs |-> NoFile]

\* The state of a deployment before its first request: the tables hold the
\* given accounts and no blog, there is no blogs.json or blogs.csv, and every
\* client has a new session.
Deployed(cfg, accounts) ==
    /\ config = cfg
    /\ users = accounts
    /\ user_blogs = {}
    /\ session = [c \in Clients |-> NewSession]
    /\ blogs_json = NoFile
    /\ blogs_csv = NoFile
    /\ resp = NoResponse
    /\ call = NoCall

\* The blog store: two users take turns at one browser, generating inline,
\* deleting and clearing.
Init ==
    Deployed([GEMINI_API_KEY |-> Key, CHAT_ASSISTANT_API_KEY |-> None,
              HAS_GOOGLE_GENAI |-> TRUE, data_writable |-> TRUE], RegisteredUsers)

Next ==
    \/ \E e \in Emails, p \in LoginPasswords : login("c1", e, p)
    \/ logout("c1")
    \/ \E lines \in SeqsUpTo(InputLines, MaxLines), env \in IndexEnvs :
          index_post("c1", lines, [i \in 1..Len(lines) |-> env], "inline", TRUE)
    \/ \E id \in BlogIds : delete_blog("c1", id)
    \/ clear_all_blogs("c1")
    \/ get_user_stats("c1")

Spec == Init /\ [][Next]_vars

(* ----------------------- accounts: SpecAuth --------------------------- *)
Configured == [GEMINI_API_KEY |-> Key, CHAT_ASSISTANT_API_KEY |-> None,
               HAS_GOOGLE_GENAI |-> TRUE, data_writable |-> TRUE]

\* A deployment without accounts; clients register, log in and log out.
InitAuth == Deployed(Configured, {})

NextAuth ==
    \/ \E c \in Clients, n \in FirstNames, u \in Usernames, e \in Emails, p \in Passwords,
          t \in BOOLEAN : register(c, n, u, e, p, t)
    \/ \E c \in Clients, e \in Emails, p \in LoginPasswords : login(c, e, p)
    \/ \E c \in Clients : logout(c)

SpecAuth == InitAuth /\ [][NextAuth]_vars

(* --------------- what a client is sent: SpecShare ---------------------- *)
\* Users log in at the browser c1; c2 is an anonymous visitor.  Each POST
\* carries one title.
ShareLines == {<<" ", "b", "|", "c">>}
ShareFormats == {"inline", "json"}
ShareEnv == [client |-> "generate_content", sdk |-> "text", rest |-> "parts_text"]
ShareIdx == 0..1

NextShare ==
    \/ \E e \in Emails : login("c1", e, <<"p">>)
    \/ logout("c1")
    \/ \E c \in Clients, l \in ShareLines, f \in ShareFormats :
          index_post(c, <<l>>, <<ShareEnv>>, f, TRUE)
    \/ \E c \in Clients, f \in {"json", "csv"} : show_blog(c, f, TRUE)
    \/ \E c \in Clients : my_blogs(c)
    \/ \E c \in Clients, id \in ShareIdx : view_blog(c, id)
    \/ \E c \in Clients, idx \in ShareIdx : download_blog(c, "html", idx)
    \/ \E c \in Clients : download_all(c, "html")

SpecShare == Init /\ [][NextShare]_vars

(* ------------------ errors while handling: SpecErr --------------------- *)
\* An anonymous client; the data directory may be read-only, the open() of
\* blogs.csv / blogs.json may fail, and so may the API.
InitErr ==
    \E w \in BOOLEAN :
        Deployed([Configured EXCEPT !.data_writable = w], RegisteredUsers)

NextErr ==
    \/ index_get("c1")
    \/ \E lines \in SeqsUpTo(InputLines, MaxLines), f \in SaveFormats, io_ok \in BOOLEAN,
          env \in IndexEnvs :
          index_post("c1", lines, [i \in 1..Len(lines) |-> env], f, io_ok)
    \/ \E f \in ListFormats, ok \in BOOLEAN : show_blog("c1", f, ok)
    \/ \E e \in Errors : handle_error("c1", e)

SpecErr == InitErr /\ [][NextErr]_vars

(* ------------------------ downloads: SpecDownload ---------------------- *)
\* One browser, at which the first user may log in; blogs are generated
\* inline and downloaded in every format.
NextDownload ==
    \/ login("c1", <<"e">>, <<"p">>)
    \/ logout("c1")
    \/ \E lines \in SeqsUpTo(InputLines, MaxLines) :
          index_post("c1", lines, [i \in 1..Len(lines) |-> ShareEnv], "inline", TRUE)
    \/ \E f \in Formats, idx \in BlogIds : download_blog("c1", f, idx)
    \/ \E f \in Formats : download_all("c1", f)

SpecDownload == Init /\ [][NextDownload]_vars

(* ---------------- editing generated blogs: SpecEdit ------------------- *)
\* Lines of blog_inputs with two different titles.
EditLines == {<<" ", "b", "|", "c">>, <<"d">>}
EditFormats == {"html", "txt"}

\* One browser, at which the first user may log in; blogs are generated
\* inline into the session's file (or, where the data directory is
\* read-only, into the session), edited and downloaded.
InitEdit ==
    \E w \in BOOLEAN :
        Deployed([Configured EXCEPT !.data_writable = w], RegisteredUsers)

NextEdit ==
    \/ login("c1", <<"e">>, <<"p">>)
    \/ logout("c1")
    \/ \E lines \in SeqsUpTo(EditLines, MaxLines) :
          index_post("c1", lines, [i \in 1..Len(lines) |-> ShareEnv], "inline", TRUE)
    \/ \E f \in EditFormats, idx \in SaveIdx : download_blog("c1", f, idx)
    \/ download_all("c1", "html")
    \/ \E data \in SaveBodies : save_blog_content("c1", data)

SpecEdit == InitEdit /\ [][NextEdit]_vars

(* ------------------- the API glue: SpecGen ----------------------------- *)
Titles   == {Empty, <<" ">>, <<" ", " ">>, <<"a">>, <<" ", "a">>}
Messages == {<<"m">>}
Configs  == [GEMINI_API_KEY : Keys, CHAT_ASSISTANT_API_KEY : {None, <<" ">>, Key},
             HAS_GOOGLE_GENAI : BOOLEAN, data_writable : {TRUE}]

\* Any configuration; each behaviour is one invocation.
InitGen == \E cfg \in Configs : Deployed(cfg, {})

generate_blog_call(title, details, env) ==
    /\ call.fn = "none"
    /\ call' = [fn |-> "generate_blog", title |-> title, details |-> details,
                env |-> env, result |-> generate_blog(title, details, config, env)]
    /\ UNCHANGED <<config, users, user_blogs, session, blogs_json, blogs_csv, resp>>

llm_chat_call(message, api_key, env) ==
    /\ call.fn = "none"
    /\ call' = [fn |-> "llm_chat", message |-> message, api_key |-> api_key,
                env |-> env, result |-> llm_chat(message, api_key, config, env)]
    /\ UNCHANGED <<config, users, user_blogs, session, blogs_json, blogs_csv, resp>>

NextGen ==
    \/ \E t \in Titles, env \in GenEnvs : generate_blog_call(t, Empty, env)
    \/ \E m \in Messages, k \in Keys, env \in GenEnvs : llm_chat_call(m, k, env)

SpecGen == InitGen /\ [][NextGen]_vars

(* -------------------------- the chat: SpecChat ------------------------- *)
\* Any configuration; each behaviour is one request to /api/chat.
NextChat ==
    /\ resp = NoResponse
    /\ \E data \in ChatBodies, env \in GenEnvs : api_chat("c1", data, env)

SpecChat == InitGen /\ [][NextChat]_vars

(* ------------------------------ properties ---------------------------- *)
IsIndexPost(r) == r.route = "index" /\ r.args.method = "POST"

HasErrorFlash(r) == \E f \in r.flashes : f[1] = "error"

\* C1: content generated by a user is returned only to that user, or to the
\* unauthenticated client of the session that generated it.  (SpecShare)
C1_NoCrossUserContent ==
    \A i \in 1..Len(resp.blogs) :
        LET g == resp.blogs[i].gen
        IN  g.user # 0 =>
                \/ resp.user = g.user
                \/ resp.user = 0 /\ resp.client = g.client

\* C2: an authenticated inline POST to / that generates N >= 1 blogs answers
\* 200 and adds exactly N rows, all owned by the user.  (Spec)
C2_OneRowPerBlog ==
    [][(IsIndexPost(resp') /\ resp'.args.save_format = "inline" /\ resp'.user # 0
        /\ resp'.args.n >= 1)
       => /\ resp'.status = 200
          /\ user_blogs \subseteq user_blogs'
          /\ Cardinality(user_blogs' \ user_blogs) = resp'.args.n
          /\ \A r \in user_blogs' \ user_blogs : r.user_id = resp'.user]_vars

\* The Content-Type that corresponds to a download format.
ExpectedType(fmt) ==
    CASE fmt = "html"     -> "text/html; charset=utf-8"
      [] fmt = "pdf"      -> "application/pdf"
      [] fmt = "docx"     ->
            "application/vnd.openxmlformats-officedocument.wordprocessingml.document"
      [] fmt = "md"       -> "text/markdown; charset=utf-8"
      [] fmt = "markdown" -> "text/markdown; charset=utf-8"
      [] fmt = "txt"      -> "text/plain; charset=utf-8"
      [] fmt = "json"     -> "application/json; charset=utf-8"
      [] fmt = "csv"      -> "text/csv; charset=utf-8"

Supported == {"html", "pdf", "docx", "md", "markdown", "txt", "json", "csv"}

\* A blog exists for idx: a row of the caller with that id, or an element of
\* the session's list at that index.  (download_blog changes neither.)
BlogExists(r) ==
    \/ r.user # 0 /\ \E row \in user_blogs : row.id = r.args.idx /\ row.user_id = r.user
    \/ r.args.idx < Len(SessionBlogs(r.client))

\* C3: download_blog answers a supported format of an existing blog with an
\* attachment of the format's Content-Type, any other format with the flash
\* 'Unsupported download format' and a redirect to the index, and a missing
\* blog with the flash 'Requested blog not found' and a redirect.  (SpecDownload)
C3_DownloadFormats ==
    resp.route = "download_blog" =>
        IF ~BlogExists(resp)
        THEN /\ resp.kind = "redirect"
             /\ resp.flashes = {<<"error", "Requested blog not found">>}
        ELSE IF resp.args.fmt \in Supported
        THEN /\ resp.kind = "attachment"
             /\ resp.ctype = ExpectedType(resp.args.fmt)
             /\ Len(resp.blogs) = 1
        ELSE /\ resp.kind = "redirect"
             /\ resp.location = "index"
             /\ resp.flashes = {<<"error", "Unsupported download format">>}

C3_Witness ==
    /\ resp.route = "download_blog"
    /\ resp.kind = "attachment"
    /\ resp.args.fmt = "markdown"
    /\ resp.blogs[1].id # 0

InGenerateBlog == call.fn = "generate_blog"
InLlmChat == call.fn = "llm_chat"

Blank(t) == \A i \in 1..Len(t) : t[i] = " "
KeyConfigured == config.GEMINI_API_KEY \notin {None, Empty}
Count(x, reqs) == Cardinality({i \in 1..Len(reqs) : reqs[i] = x})

\* The google-genai library is installed and its call raises.
ClientCallRaises ==
    /\ config.HAS_GOOGLE_GENAI
    /\ call.env.client \in {"no_Client", "generate_content", "generate"}
    /\ call.env.sdk = "raise"

\* C4 as stated: whenever the library is not installed or the client call
\* raises, generate_blog issues the REST request and returns its text.  (SpecGen)
C4_RestWheneverClientFails ==
    (InGenerateBlog /\ ~Blank(call.title) /\ KeyConfigured
     /\ (~config.HAS_GOOGLE_GENAI \/ ClientCallRaises))
    => /\ Count("rest", call.result.requests) = 1
       /\ call.env.rest = "parts_text" =>
              call.result.kind = "return" /\ call.result.value = RestText

\* C4 as amended: generate_blog takes the REST path exactly when google-genai
\* is not installed; then it issues the one REST request and returns the
\* reply's candidate text ('' without text, the JSON dump without candidates),
\* or raises RuntimeError when the request fails.  With the library installed
\* no REST request is made, and a raising client call ends in RuntimeError.
\* (SpecGen)
C4_RestOnlyWithoutLibrary ==
    (InGenerateBlog /\ ~Blank(call.title) /\ KeyConfigured)
    => /\ ~config.HAS_GOOGLE_GENAI =>
              /\ call.result.requests = <<"rest">>
              /\ call.env.rest = "parts_text" =>
                     call.result.kind = "return" /\ call.result.value = RestText
              /\ call.env.rest \in {"parts_no_text", "no_parts"} =>
                     call.result.kind = "return" /\ call.result.value = Empty
              /\ call.env.rest = "no_candidates" =>
                     call.result.kind = "return" /\ call.result.value = JsonDump
              /\ call.env.rest = "error" => call.result.kind = "RuntimeError"
       /\ config.HAS_GOOGLE_GENAI => Count("rest", call.result.requests) = 0
       /\ ClientCallRaises =>
              call.result.kind = "RuntimeError" /\ call.result.requests = <<"sdk">>

C4_Witness ==
    /\ InGenerateBlog /\ ~Blank(call.title) /\ KeyConfigured
    /\ ClientCallRaises
    /\ call.env.rest = "parts_text"
    /\ call.result.kind = "RuntimeError"

\* C5: one invocation of generate_blog makes at most one request in all; one
\* invocation of llm_chat at most one SDK and at most one REST request.  (SpecGen)
C5_NoRetry ==
    /\ InGenerateBlog => Len(call.result.requests) <= 1
    /\ InLlmChat => /\ Count("sdk", call.result.requests) <= 1
                    /\ Count("rest", call.result.requests) <= 1

C5_Witness ==
    InLlmChat /\ call.env.rest = "error" /\ call.result.requests = <<"sdk", "rest">>

\* C8: generate_blog raises ValueError on an empty or whitespace-only title,
\* whatever the key, and a ValueError naming GEMINI_API_KEY on a title without
\* a configured key; neither makes a request.  (SpecGen)
C8_InputErrors ==
    InGenerateBlog =>
        /\ Blank(call.title) =>
               /\ call.result.kind = "ValueError"
               /\ call.result.msg = "Title cannot be empty"
               /\ call.result.requests = <<>>
        /\ (~Blank(call.title) /\ ~KeyConfigured) =>
               /\ call.result.kind = "ValueError"
               /\ call.result.msg = "GEMINI_API_KEY is not configured"
               /\ call.result.requests = <<>>

C8_Witness ==
    /\ InGenerateBlog
    /\ call.title = <<" ", " ">>
    /\ ~KeyConfigured
    /\ call.result.msg = "Title cannot be empty"

\* C6 as stated: an exception raised while handling a POST to / or a GET of
\* /blog/<format>, or reaching the error handler, ends in an error flash and
\* a redirect to the index.  (SpecErr)
C6_EveryErrorRedirects ==
    ((IsIndexPost(resp) \/ resp.route \in {"show_blog", "handle_error"})
     /\ resp.raised # {})
    => /\ HasErrorFlash(resp)
       /\ resp.kind = "redirect"
       /\ resp.location = "index"

\* C6 as amended: every exception is caught.  In show_blog and in the error
\* handler it ends in an error flash and a redirect to the index.  In a POST
\* to /, an exception of generate_blog is flashed as an error and the other
\* titles are still generated; the response is a redirect to the index with
\* an error flash when no blog was generated or when writing blogs.csv raises
\* ValueError; an IOError on opening blogs.csv or blogs.json is flashed and
\* the blogs are rendered; a failure to write the session's file is swallowed
\* without a flash and the blogs are rendered.  (SpecErr)
C6_ErrorsCaught ==
    /\ resp.status \in {0, 200, 302}
    /\ (resp.route \in {"show_blog", "handle_error"} /\ resp.raised # {})
       => HasErrorFlash(resp) /\ resp.kind = "redirect" /\ resp.location = "index"
    /\ IsIndexPost(resp) =>
          /\ (\E e \in resp.raised : e[1] = "generate_blog")
             => <<"error", "Error generating blog">> \in resp.flashes
          /\ ((resp.raised # {} /\ resp.args.n = 0) \/ <<"save", "ValueError">> \in resp.raised)
             => HasErrorFlash(resp) /\ resp.kind = "redirect" /\ resp.location = "index"
          /\ <<"save", "IOError">> \in resp.raised
             => HasErrorFlash(resp) /\ resp.kind = "render" /\ Len(resp.blogs) = resp.args.n
          /\ resp.raised = {<<"session_file", "IOError">>}
             => resp.flashes = {} /\ resp.kind = "render"
          /\ (resp.args.n >= 1 /\ resp.args.save_format = "inline")
             => resp.kind = "render" /\ resp.status = 200

C6_Witness ==
    /\ IsIndexPost(resp)
    /\ resp.args.n >= 1
    /\ <<"generate_blog", "ValueError">> \in resp.raised
    /\ resp.kind = "render"
    /\ HasErrorFlash(resp)

\* C7: no two rows of users share a username or an email, and a registration
\* with a taken username or email adds no row.  (SpecAuth)
C7_UniqueUsers ==
    /\ [](\A u, v \in users : u # v => u.username # v.username /\ u.email # v.email)
    /\ [][(resp'.route = "register"
           /\ \E u \in users : \/ u.username = resp'.args.username
                               \/ u.email = resp'.args.email)
          => users' = users]_vars

C7_Witness ==
    /\ resp.route = "register"
    /\ <<"error", "Email already registered">> \in resp.flashes
    /\ \E u \in users : u.email = resp.args.email /\ u.username # resp.args.username

\* C9: delete_blog by an unauthenticated caller answers 401, with an id that is
\* no row of the caller 404, both without changing a row; with the id of a row
\* of the caller it answers 200 and removes exactly that row.  (Spec)
C9_DeleteOwnRowOnly ==
    [][resp'.route = "delete_blog"
       => LET u == resp'.user
              own == {r \in user_blogs : r.id = resp'.args.blog_id /\ r.user_id = u}
          IN  IF u = 0 THEN resp'.status = 401 /\ user_blogs' = user_blogs
              ELSE IF own = {} THEN resp'.status = 404 /\ user_blogs' = user_blogs
              ELSE /\ resp'.status = 200
                   /\ Cardinality(own) = 1
                   /\ user_blogs' = user_blogs \ own]_vars

C9_Witness ==
    /\ resp.route = "delete_blog"
    /\ resp.status = 200
    /\ \E r \in user_blogs : r.user_id = resp.user
    /\ \E r \in user_blogs : r.user_id # resp.user

\* C10: clear_all_blogs by a user removes the rows of that user and no other;
\* unauthenticated it answers 401 and changes nothing; after it the user has
\* no row, and a second call changes no row.  (Spec)
C10_ClearOwnRows ==
    /\ []((resp.route = "clear_all_blogs" /\ resp.status = 200) => RowsOf(resp.user) = {})
    /\ [][resp'.route = "clear_all_blogs"
          => IF resp'.user = 0 THEN resp'.status = 401 /\ user_blogs' = user_blogs
             ELSE /\ resp'.status = 200
                  /\ user_blogs' = {r \in user_blogs : r.user_id # resp'.user}]_vars
    /\ [][(resp.route = "clear_all_blogs" /\ resp.status = 200
           /\ resp'.route = "clear_all_blogs" /\ resp'.user = resp.user)
          => user_blogs' = user_blogs]_vars

C10_Witness ==
    /\ resp.route = "clear_all_blogs"
    /\ resp.status = 200
    /\ user_blogs # {}

\* The download is the blog the session holds at idx (the database id apart).
IsSessionBlog(r, idx) ==
    /\ r.kind = "attachment"
    /\ Len(r.blogs) = 1
    /\ [r.blogs[1] EXCEPT !.id = 0]
          = _sanitize_blog_content(SessionBlogs(r.client)[idx + 1])

\* C11: after an inline generation of N blogs in a session, download_blog(fmt, i)
\* for every 0 <= i < N returns the i-th blog of that generation, whether or
\* not the user is authenticated and whatever rows the user has.  (SpecEdit)
C11_SessionBlogByIndex ==
    (/\ resp.route = "download_blog"
     /\ resp.args.fmt \in Supported
     /\ resp.args.idx < Len(SessionBlogs(resp.client)))
    => IsSessionBlog(resp, resp.args.idx)

\* C12: once save_blog_content(idx = i, body_html = h) has returned success for
\* a blog of the session's inline generation, download_blog('html', i) and
\* download_all('html') of that session return content built from h.
\* (SpecEdit)
C12_SavedContentDownloaded ==
    (/\ resp.route = "save_blog_content"
     /\ resp.status = 200
     /\ resp.args.idx < Len(SessionBlogs(resp.client)))
    => /\ DownloadBlog(resp.client, "html", resp.args.idx).content
            = Content("html", [body_html |-> resp.args.body_html])
       /\ DownloadAll(resp.client, "html").blogs[resp.args.idx + 1].body_html
            = resp.args.body_html

\* C13: after any sequence of generate, delete_blog and clear_all_blogs
\* requests, /api/user-stats reports to an authenticated user total_blogs = the
\* number of rows that user owns now, to an unauthenticated caller
\* total_blogs = 0, and total_downloads = 0 in every case.  (Spec)
C13_UserStats ==
    resp.route = "get_user_stats" =>
        /\ resp.status = 200
        /\ resp.content.total_downloads = 0
        /\ resp.content.total_blogs
             = IF resp.user = 0 THEN 0
               ELSE Cardinality({r \in user_blogs : r.user_id = resp.user})

\* The caller owns two of the three rows of the table.
C13_Witness ==
    /\ resp.route = "get_user_stats"
    /\ resp.user # 0
    /\ resp.content.total_blogs = 2
    /\ Cardinality(user_blogs) = 3

\* The row of the table with the id a response's blog carries, owned by the
\* user the response went to.
IsOwnRow(r, blog) ==
    \E row \in user_blogs : row.id = blog.id /\ row.user_id = r.user

\* C14: view_blog(id) and the database path of download_blog(fmt, id) return a
\* row only when its user_id is the current user's id, my_blogs lists only
\* rows whose user_id is the current user's id, and unauthenticated callers of
\* view_blog and my_blogs are redirected to login with no row.  (SpecShare)
C14_OwnerScopedReads ==
    /\ (resp.route \in {"view_blog", "my_blogs"} /\ resp.user = 0)
         => /\ resp.kind = "redirect"
            /\ resp.location = "login"
            /\ resp.blogs = <<>>
    /\ (resp.route = "view_blog" /\ resp.kind = "render")
         => /\ Len(resp.blogs) = 1
            /\ resp.blogs[1].id = resp.args.blog_id
            /\ IsOwnRow(resp, resp.blogs[1])
    /\ (resp.route = "download_blog" /\ resp.kind = "attachment" /\ resp.blogs[1].id # 0)
         => /\ resp.blogs[1].id = resp.args.idx
            /\ IsOwnRow(resp, resp.blogs[1])
    /\ (resp.route = "my_blogs" /\ resp.kind = "render")
         => /\ \A i \in 1..Len(resp.blogs) : IsOwnRow(resp, resp.blogs[i])
            /\ {resp.blogs[i].id : i \in 1..Len(resp.blogs)}
                 = {row.id : row \in {x \in user_blogs : x.user_id = resp.user}}

\* A user asks for the row of another user and is not shown it.
C14_Witness ==
    /\ resp.route = "view_blog"
    /\ resp.user # 0
    /\ resp.kind = "redirect"
    /\ resp.location = "my_blogs"
    /\ \E row \in user_blogs : row.id = resp.args.blog_id /\ row.user_id # resp.user

\* C15: a POST to / with save_format = 'csv' in which at least one blog is
\* generated (and blogs.csv can be opened) writes every generated blog to
\* blogs.csv, flashes 'Blogs saved successfully as CSV' and redirects to
\* /blog/csv, whose listing then holds exactly the blogs of that POST.  (SpecErr)
C15_CsvSaved ==
    (/\ IsIndexPost(resp)
     /\ resp.args.save_format = "csv"
     /\ resp.args.n >= 1
     /\ <<"save", "IOError">> \notin resp.raised)
    => /\ resp.kind = "redirect"
       /\ resp.location = "show_blog/csv"
       /\ <<"success", "Blogs saved successfully as CSV">> \in resp.flashes
       /\ blogs_csv.exists
       /\ Len(blogs_csv.blogs) = resp.args.n
       /\ Len(ShowBlog(resp.client, "csv", TRUE).blogs) = resp.args.n

\* llm_chat, called as api_chat calls it for the request of a response, raises.
LlmChatRaises(r) ==
    LET k == IF Truthy(config.CHAT_ASSISTANT_API_KEY) THEN config.CHAT_ASSISTANT_API_KEY
             ELSE config.GEMINI_API_KEY
    IN  llm_chat(strip(r.args.data.message), IF Truthy(k) THEN strip(k) ELSE k,
                 config, r.args.env).kind # "return"

\* C16: api_chat returns 400 when the JSON body is missing or has no 'message'
\* key, 400 when the message is empty after stripping, 500 when llm_chat
\* raises, and otherwise 200 with a 'response' that is never the empty string.
\* (SpecChat)
C16_ChatStatuses ==
    (resp.route = "api_chat" /\ resp.args.data.json # "raises") =>
        IF resp.args.data.json = "null" \/ ~resp.args.data.has_message
        THEN resp.status = 400
        ELSE IF strip(resp.args.data.message) = Empty
        THEN resp.status = 400
        ELSE IF LlmChatRaises(resp)
        THEN resp.status = 500
        ELSE /\ resp.status = 200
             /\ resp.content.response # Empty

\* A key that is a string with something other than white space in it.
Usable(k) == k # None /\ strip(k) # Empty

\* The key llm_chat selects: the first of api_key, CHAT_ASSISTANT_API_KEY and
\* GEMINI_API_KEY that is a non-empty string.
SelectedKey ==
    IF call.api_key \notin {None, Empty} THEN call.api_key
    ELSE IF config.CHAT_ASSISTANT_API_KEY \notin {None, Empty}
    THEN config.CHAT_ASSISTANT_API_KEY
    ELSE config.GEMINI_API_KEY

\* The google-genai client was called and its response has a text.
ClientGaveText ==
    /\ config.HAS_GOOGLE_GENAI
    /\ call.env.client = "generate_content"
    /\ call.env.sdk \in {"text", "blank"}

\* With a key, llm_chat returns the client's text or else issues the one REST
\* request and returns its text ('' without one), raising RuntimeError
\* exactly when that request fails.
FallsThrough ==
    LET r == call.result
    IN  IF ClientGaveText
        THEN r.kind = "return" /\ r.value \in {SdkText, BlankText}
        ELSE /\ Count("rest", r.requests) = 1
             /\ r.kind = "RuntimeError" <=> call.env.rest = "error"
             /\ call.env.rest # "error"
                  => /\ r.kind = "return"
                     /\ r.value = (CASE call.env.rest = "parts_text" -> RestText
                                      [] call.env.rest = "parts_blank" -> BlankText
                                      [] OTHER -> Empty)

====
